---- MODULE Spec2Model ----
(***************************************************************************)
(* Two verification scripts and the contracts they are about.              *)
(*                                                                         *)
(*  access-control-verificaiton.py                                         *)
(*    - the MultiSigAdmin contract of the script's Solidity sketch, as a   *)
(*      transition system (Spec);                                          *)
(*    - the script's constructor section, which declares the symbolic      *)
(*      storage and stores the admins (CtorSpec);                          *)
(*    - the script's constraints, its one call of the solver and the       *)
(*      verdict it prints (QuerySpec).                                     *)
(*  erc20-overflow.py                                                      *)
(*    - the guarded subtraction, the solver call and the verdict (ErcSpec).*)
(*                                                                         *)
(* A state of CtorSpec, QuerySpec and ErcSpec carries one valuation of the *)
(* script's free symbolic constants: the behaviours together range over    *)
(* the valuations the solver searches.                                     *)
(***************************************************************************)
EXTENDS Integers, Sequences, FiniteSets, TLC

VARIABLES
    admins,                \* contract: address[] admins; script: the admin_i stored so far
    isAdmin,               \* mapping(address => bool) / the script's isAdmin term
    isAdmin0,              \* script: the valuation of the declared array "isAdmin"
    approvals,             \* mapping(target => uint) / Array "approvals"
    approvedBy,            \* mapping(target => mapping(address => bool))
    critical_upgrade,      \* bool critical_upgrade / Bool "critical_upgrade"
    updated_approvals,     \* script: Array "updated_approvals"
    updated_approvedBy,    \* script: Array "updated_approvedBy"
    sender,                \* script: BitVec "sender"
    target,                \* script: BitVec "target"
    lastOp,                \* contract: the function called last
    reverted,              \* contract: whether that call reverted
    pc,                    \* script: the statement reached
    answer,                \* script: what s.check() returned
    printed,               \* script: the message printed
    user_balance,          \* erc20 script: BitVec "user_balance"
    requested_amount,      \* erc20 script: BitVec "requested_amount"
    updated_user_balance   \* erc20 script: BitVec "updated_user_balance"

vars == <<admins, isAdmin, isAdmin0, approvals, approvedBy, critical_upgrade,
          updated_approvals, updated_approvedBy, sender, target, lastOp,
          reverted, pc, answer, printed, user_balance, requested_amount,
          updated_user_balance>>

(***************************************************************************)
(* Bounds and program constants                                            *)
(***************************************************************************)

\* addresses are 0..MaxAddr (BitVecSort(160) in the script)
MaxAddr == 2

\* the constructor is called with REQUIRED_SIGNATURES..MaxAdmins admins
MaxAdmins == 3

\* the script's loop stores this many admins (the script itself uses 10)
num_admins == 2

\* the script's integers (IntSort) range over -1..MaxInt
MaxInt == 3

\* bit width of the erc20 script's bit-vectors (256 in the script)
Width == 3

REQUIRED_SIGNATURES == 3

Addr == 0..MaxAddr

\* the contract is called with two upgrade targets, the least and the greatest
\* address: enough to tell a target's own count from the contract-wide flag
Targets == {0, MaxAddr}

IntVals == (0 - 1)..MaxInt

(***************************************************************************)
(* Arrays and mappings                                                     *)
(***************************************************************************)

\* z3 Select: a[k]
Select(a, k) == a[k]

\* a Store that writes the value at every key
StoreEverywhere(a, k, v) == [x \in DOMAIN a |-> v]

\* z3 Store: the array equal to a except that it holds v at k
Store(a, k, v) == [a EXCEPT ![k] = v]

\* an array holding v at every key (how a solver model gives an array the
\* script reads at one key only)
K(v) == [a \in Addr |-> v]

\* a Solidity mapping before any write: every key reads the type's default
EmptyApprovals == [t \in Addr |-> 0]

EmptyApprovedBy == [t \in Addr |-> [a \in Addr |-> FALSE]]

Range(s) == {s[j] : j \in 1..Len(s)}

(***************************************************************************)
(* The MultiSigAdmin contract of the Solidity sketch                       *)
(***************************************************************************)

\* the variables only the scripts use
scriptVars == <<isAdmin0, updated_approvals, updated_approvedBy, sender, target,
                pc, answer, printed>>

ercVars == <<user_balance, requested_amount, updated_user_balance>>

ScriptIdle ==
    /\ isAdmin0 = K(FALSE)
    /\ updated_approvals = K(0)
    /\ updated_approvedBy = K(K(FALSE))
    /\ sender = 0
    /\ target = 0
    /\ pc = "none"
    /\ answer = "none"
    /\ printed = "none"

ErcIdle ==
    /\ user_balance = 0
    /\ requested_amount = 0
    /\ updated_user_balance = 0

ContractIdle ==
    /\ lastOp = "none"
    /\ reverted = FALSE

\* the argument lists the constructor accepts: require(_admins.length >= REQUIRED_SIGNATURES)
AdminLists ==
    UNION {[1..n -> Addr] : n \in REQUIRED_SIGNATURES..MaxAdmins}

\* constructor(_admins): the state it leaves
Init ==
    /\ \E _admins \in AdminLists :
          /\ admins = _admins
          /\ isAdmin = [a \in Addr |-> a \in Range(_admins)]
    /\ approvals = EmptyApprovals
    /\ approvedBy = EmptyApprovedBy
    /\ critical_upgrade = FALSE
    /\ ContractIdle
    /\ ScriptIdle
    /\ ErcIdle

\* approveAction(target), called by msg.sender = s; a failed require reverts
\* the call and leaves the storage as it was
approveAction(s, t) ==
    /\ lastOp' = "approveAction"
    /\ IF isAdmin[s] /\ ~approvedBy[t][s]
          THEN /\ approvedBy' = [approvedBy EXCEPT ![t][s] = TRUE]
               /\ approvals' = [approvals EXCEPT ![t] = approvals[t] + 1]
               /\ reverted' = FALSE
          ELSE /\ reverted' = TRUE
               /\ UNCHANGED <<approvedBy, approvals>>
    /\ UNCHANGED <<admins, isAdmin, critical_upgrade>>
    /\ UNCHANGED scriptVars
    /\ UNCHANGED ercVars

\* upgradeContract without its require
upgradeContractNoRequire(t) ==
    /\ lastOp' = "upgradeContract"
    /\ critical_upgrade' = TRUE
    /\ reverted' = FALSE
    /\ UNCHANGED <<admins, isAdmin, approvals, approvedBy>>
    /\ UNCHANGED scriptVars
    /\ UNCHANGED ercVars

\* upgradeContract with a threshold one too low
upgradeContractOffByOne(t) ==
    /\ lastOp' = "upgradeContract"
    /\ IF approvals[t] >= REQUIRED_SIGNATURES - 1
          THEN /\ critical_upgrade' = TRUE
               /\ reverted' = FALSE
          ELSE /\ reverted' = TRUE
               /\ UNCHANGED critical_upgrade
    /\ UNCHANGED <<admins, isAdmin, approvals, approvedBy>>
    /\ UNCHANGED scriptVars
    /\ UNCHANGED ercVars

\* upgradeContract(newContract); the sketch's "critcal_update = true" sets the
\* contract's one flag, critical_upgrade
upgradeContract(t) ==
    /\ lastOp' = "upgradeContract"
    /\ IF approvals[t] >= REQUIRED_SIGNATURES
          THEN /\ critical_upgrade' = TRUE
               /\ reverted' = FALSE
          ELSE /\ reverted' = TRUE
               /\ UNCHANGED critical_upgrade
    /\ UNCHANGED <<admins, isAdmin, approvals, approvedBy>>
    /\ UNCHANGED scriptVars
    /\ UNCHANGED ercVars

Approve == \E s \in Addr, t \in Targets : approveAction(s, t)

Upgrade == \E t \in Targets : upgradeContract(t)

Next == Approve \/ Upgrade

Spec == Init /\ [][Next]_vars

(***************************************************************************)
(* C1. Threshold authorization, per transition: a call upgradeContract(t)  *)
(* made while approvals[t] < REQUIRED_SIGNATURES reverts and leaves        *)
(* critical_upgrade as it was; critical_upgrade goes from FALSE to TRUE    *)
(* only in an upgradeContract(t) with approvals[t] >= REQUIRED_SIGNATURES; *)
(* approveAction never changes critical_upgrade.                           *)
(***************************************************************************)
C1_ThresholdPerTransition ==
    [][ /\ \A t \in Targets :
              (upgradeContract(t) /\ approvals[t] < REQUIRED_SIGNATURES)
                  => (critical_upgrade' = critical_upgrade /\ reverted')
        /\ (~critical_upgrade /\ critical_upgrade')
              => \E t \in Targets : /\ upgradeContract(t)
                                    /\ approvals[t] >= REQUIRED_SIGNATURES
        /\ \A s \in Addr, t \in Targets :
              approveAction(s, t) => critical_upgrade' = critical_upgrade
      ]_vars

\* an upgradeContract call has just reverted although a target is one approval
\* short of the threshold, and the flag is still FALSE
C1_Witness ==
    /\ lastOp = "upgradeContract"
    /\ reverted
    /\ ~critical_upgrade
    /\ \A t \in Targets : approvals[t] < REQUIRED_SIGNATURES
    /\ \E t \in Targets : approvals[t] = REQUIRED_SIGNATURES - 1

(***************************************************************************)
(* C2. As stated: in every reachable state, for every address t, not       *)
(* (approvals[t] < REQUIRED_SIGNATURES and critical_upgrade).              *)
(***************************************************************************)
C2_EveryTargetInvariant ==
    \A t \in Addr : ~(approvals[t] < REQUIRED_SIGNATURES /\ critical_upgrade = TRUE)

(***************************************************************************)
(* C2, amended. In every reachable state, critical_upgrade implies that    *)
(* some target has approvals[t] >= REQUIRED_SIGNATURES: the flag is        *)
(* contract-wide, the threshold was met by the target that was upgraded.   *)
(***************************************************************************)
C2_SomeTargetInvariant ==
    critical_upgrade => \E t \in Addr : approvals[t] >= REQUIRED_SIGNATURES

\* upgraded for one target while another target is below the threshold
C2_Witness ==
    /\ critical_upgrade
    /\ lastOp = "upgradeContract"
    /\ \E t \in Targets : approvals[t] >= REQUIRED_SIGNATURES
    /\ \E t \in Targets : approvals[t] < REQUIRED_SIGNATURES

(***************************************************************************)
(* The solver                                                              *)
(***************************************************************************)

\* what s.check() may return on a query: sat only if a valuation satisfies
\* it, unsat only if none does, unknown when it gives up
SolverAnswers(satisfiable) ==
    IF satisfiable THEN {"sat", "unknown"} ELSE {"unsat", "unknown"}

(***************************************************************************)
(* erc20-overflow.py                                                       *)
(***************************************************************************)

BVMod == 2 ^ Width

\* the values of a bit-vector of Width bits, read as unsigned
BV == 0..(BVMod - 1)

\* z3 UGT: unsigned greater-than
UGT(x, y) == x > y

\* the subtraction with its operands exchanged
BVSubSwapped(x, y) == (y - x) % BVMod

\* a subtraction that stops at 0 instead of wrapping
BVSubSaturating(x, y) == IF x >= y THEN x - y ELSE 0

\* z3 bit-vector subtraction: modulo 2^Width
BVSub(x, y) == (x - y) % BVMod

\* the one constraint the script asserts
ErcQuery(b, a, u) ==
    /\ UGT(b, a)
    /\ u = BVSub(b, a)
    /\ UGT(u, b)

ErcSatisfiable == \E b \in BV, a \in BV, u \in BV : ErcQuery(b, a, u)

accessVars == <<admins, isAdmin, isAdmin0, approvals, approvedBy, critical_upgrade,
                updated_approvals, updated_approvedBy, sender, target, lastOp,
                reverted>>

AccessIdle ==
    /\ admins = <<>>
    /\ isAdmin = K(FALSE)
    /\ isAdmin0 = K(FALSE)
    /\ approvals = K(0)
    /\ approvedBy = K(K(FALSE))
    /\ critical_upgrade = FALSE
    /\ updated_approvals = K(0)
    /\ updated_approvedBy = K(K(FALSE))
    /\ sender = 0
    /\ target = 0
    /\ ContractIdle

\* the three bit-vectors are declared and free
ErcInit ==
    /\ user_balance \in BV
    /\ requested_amount \in BV
    /\ updated_user_balance \in BV
    /\ pc = "declared"
    /\ answer = "none"
    /\ printed = "none"
    /\ AccessIdle

\* s.add(And(UGT(..), updated_user_balance == user_balance - requested_amount, UGT(..)))
ErcAssert ==
    /\ pc = "declared"
    /\ pc' = "asserted"
    /\ UNCHANGED <<answer, printed>>
    /\ UNCHANGED ercVars
    /\ UNCHANGED accessVars

\* s.check(); when it answers sat, the valuation is the model it found
ErcCheck ==
    /\ pc = "asserted"
    /\ answer' \in {r \in SolverAnswers(ErcSatisfiable) :
                       r = "sat" => ErcQuery(user_balance, requested_amount,
                                             updated_user_balance)}
    /\ pc' = "checked"
    /\ UNCHANGED printed
    /\ UNCHANGED ercVars
    /\ UNCHANGED accessVars

\* if s.check() == sat: print("Counter Example Found: ", ...) else: print(...)
ErcPrint ==
    /\ pc = "checked"
    /\ printed' = IF answer = "sat"
                     THEN "Counter Example Found"
                     ELSE "Underflow of the User Balance never happens"
    /\ pc' = "done"
    /\ UNCHANGED answer
    /\ UNCHANGED ercVars
    /\ UNCHANGED accessVars

ErcNext == ErcAssert \/ ErcCheck \/ ErcPrint

ErcSpec == ErcInit /\ [][ErcNext]_vars

(***************************************************************************)
(* C4. Underflow guard soundness: no valuation has user_balance >          *)
(* requested_amount, updated_user_balance = user_balance -                 *)
(* requested_amount modulo 2^Width and updated_user_balance >              *)
(* user_balance; the solver never answers sat.                             *)
(***************************************************************************)
C4_GuardSound ==
    /\ ~ErcQuery(user_balance, requested_amount, updated_user_balance)
    /\ (UGT(user_balance, requested_amount)
          /\ updated_user_balance = BVSub(user_balance, requested_amount))
         => ~UGT(updated_user_balance, user_balance)
    /\ answer # "sat"

\* the boundary requested_amount = user_balance - 1, with the constraint asserted
C4_Witness ==
    /\ pc = "done"
    /\ UGT(user_balance, requested_amount)
    /\ requested_amount = user_balance - 1
    /\ updated_user_balance = BVSub(user_balance, requested_amount)
    /\ updated_user_balance = 1

(***************************************************************************)
(* C5. Underflow guard necessity: without the guard, every valuation with  *)
(* updated_user_balance = user_balance - requested_amount modulo 2^Width   *)
(* and updated_user_balance > user_balance has user_balance <              *)
(* requested_amount, and for user_balance = 0, requested_amount = 1 the    *)
(* difference is 2^Width - 1, which is such a valuation.                   *)
(***************************************************************************)
C5_GuardNecessary ==
    /\ (updated_user_balance = BVSub(user_balance, requested_amount)
          /\ UGT(updated_user_balance, user_balance))
         => user_balance < requested_amount
    /\ (user_balance = 0 /\ requested_amount = 1
          /\ updated_user_balance = BVSub(user_balance, requested_amount))
         => (updated_user_balance = BVMod - 1
               /\ UGT(updated_user_balance, user_balance))

\* the valuation that satisfies the unguarded query
C5_Witness ==
    /\ pc = "done"
    /\ user_balance = 0
    /\ requested_amount = 1
    /\ updated_user_balance = BVSub(user_balance, requested_amount)
    /\ updated_user_balance = BVMod - 1
    /\ UGT(updated_user_balance, user_balance)
    /\ ~UGT(user_balance, requested_amount)

(***************************************************************************)
(* C6. Inconclusive solver results are never reported as a proof: when     *)
(* s.check() answers unknown the script does not print its "property       *)
(* holds" message, which it prints only on unsat.                          *)
(***************************************************************************)
C6_UnknownIsNotProof ==
    pc = "done" =>
        /\ answer = "unknown" => printed = "Unknown"
        /\ printed = "Underflow of the User Balance never happens" => answer = "unsat"

(***************************************************************************)
(* C8. Non-strict guard safety: every valuation with user_balance >=       *)
(* requested_amount and updated_user_balance = user_balance -              *)
(* requested_amount modulo 2^Width has updated_user_balance <=             *)
(* user_balance, and updated_user_balance = 0 when the two are equal.      *)
(***************************************************************************)
C8_NonStrictGuardSafe ==
    (user_balance >= requested_amount
       /\ updated_user_balance = BVSub(user_balance, requested_amount))
      => /\ updated_user_balance <= user_balance
         /\ requested_amount = user_balance => updated_user_balance = 0

\* the boundary the strict guard excludes: requested_amount = user_balance
C8_Witness ==
    /\ pc = "done"
    /\ user_balance = requested_amount
    /\ user_balance > 0
    /\ ~UGT(user_balance, requested_amount)
    /\ updated_user_balance = BVSub(user_balance, requested_amount)
    /\ updated_user_balance = 0

(***************************************************************************)
(* access-control-verificaiton.py: the constructor section                 *)
(***************************************************************************)

\* the arrays a valuation gives "approvals" and "updated_approvals"
IntArrays == {K(x) : x \in IntVals}

\* the arrays a valuation gives "approvedBy" and "updated_approvedBy"
BoolArrays == {K(K(b)) : b \in BOOLEAN}

\* the arrays, the flag and the constants are declared and free; nothing is
\* stored yet
CtorInit ==
    /\ isAdmin0 \in [Addr -> BOOLEAN]
    /\ isAdmin = isAdmin0
    /\ admins = <<>>
    /\ approvals \in IntArrays
    /\ approvedBy \in BoolArrays
    /\ critical_upgrade \in BOOLEAN
    /\ pc = "loop"
    /\ updated_approvals = K(0)
    /\ updated_approvedBy = K(K(FALSE))
    /\ sender = 0
    /\ target = 0
    /\ answer = "none"
    /\ printed = "none"
    /\ ContractIdle
    /\ ErcIdle

\* one pass of the loop: admin = BitVec(f'admin_{i}', 160), a fresh free
\* constant; admins = Store(admins, i, admin); isAdmin = Store(isAdmin, admin, True)
CtorStore ==
    /\ pc = "loop"
    /\ Len(admins) < num_admins
    /\ \E admin \in Addr :
          /\ admins' = Append(admins, admin)
          /\ isAdmin' = Store(isAdmin, admin, TRUE)
    /\ UNCHANGED <<isAdmin0, approvals, approvedBy, critical_upgrade,
                   updated_approvals, updated_approvedBy, sender, target,
                   lastOp, reverted, pc, answer, printed>>
    /\ UNCHANGED ercVars

\* s.add(critical_upgrade == False), after the loop
CtorFlag ==
    /\ pc = "loop"
    /\ Len(admins) = num_admins
    /\ pc' = "constructed"
    /\ UNCHANGED <<answer, printed>>
    /\ UNCHANGED accessVars
    /\ UNCHANGED ercVars

CtorNext == CtorStore \/ CtorFlag

CtorSpec == CtorInit /\ [][CtorNext]_vars

\* s.add(critical_upgrade == False): what it asks of the valuation
FlagConstraint(v) == v.critical_upgrade = FALSE

\* the isAdmin term the loop leaves, for a declared array and stored admins
RECURSIVE ConstructorChain(_, _)
ConstructorChain(base, adm) ==
    IF adm = <<>>
       THEN base
       ELSE Store(ConstructorChain(base, SubSeq(adm, 1, Len(adm) - 1)),
                  adm[Len(adm)], TRUE)

(***************************************************************************)
(* C9. Default storage semantics: after the constructor section, for a     *)
(* valuation that meets what the section asserts, isAdmin reads FALSE at   *)
(* every address that is no admin_i, approvedBy reads FALSE everywhere and *)
(* approvals reads 0 (never a negative number) everywhere.                 *)
(***************************************************************************)
C9_DefaultStorage ==
    (pc = "constructed" /\ critical_upgrade = FALSE) =>
        /\ \A a \in Addr \ Range(admins) : Select(isAdmin, a) = FALSE
        /\ \A t \in Addr, a \in Addr : Select(Select(approvedBy, t), a) = FALSE
        /\ \A t \in Addr : Select(approvals, t) = 0 /\ Select(approvals, t) >= 0

(***************************************************************************)
(* C10. Functional update: after each Store of the loop, isAdmin reads     *)
(* TRUE at every admin stored so far, also when two of them are the same   *)
(* address, and reads what the declared array held at every other address. *)
(***************************************************************************)
C10_FunctionalUpdate ==
    /\ \A j \in 1..Len(admins) : Select(isAdmin, admins[j]) = TRUE
    /\ \A b \in Addr \ Range(admins) : Select(isAdmin, b) = Select(isAdmin0, b)

\* the loop has run, two admin_i are one address, and an address that was
\* never stored reads the FALSE, another the TRUE, the declared array held
C10_Witness ==
    /\ pc = "constructed"
    /\ Len(admins) >= 2
    /\ admins[1] = admins[2]
    /\ Select(isAdmin0, admins[1]) = FALSE
    /\ \E b \in Addr \ Range(admins) : Select(isAdmin, b) = FALSE
    /\ \E b \in Addr \ Range(admins) : Select(isAdmin, b) = TRUE

(***************************************************************************)
(* access-control-verificaiton.py: the constraints, the check, the verdict *)
(***************************************************************************)

\* the isAdmin terms the constructor section can leave
ConstructedAdminMaps ==
    {ConstructorChain(base, adm) : base \in [Addr -> BOOLEAN],
                                   adm \in [1..num_admins -> Addr]}

\* the valuations of the constants the constraints read
Valuations ==
    [isAdmin : ConstructedAdminMaps,
     approvals : IntArrays,
     updated_approvals : IntArrays,
     approvedBy : BoolArrays,
     updated_approvedBy : BoolArrays,
     sender : Addr,
     target : Addr,
     critical_upgrade : BOOLEAN]

\* the valuation a state carries
val ==
    [isAdmin |-> isAdmin,
     approvals |-> approvals,
     updated_approvals |-> updated_approvals,
     approvedBy |-> approvedBy,
     updated_approvedBy |-> updated_approvedBy,
     sender |-> sender,
     target |-> target,
     critical_upgrade |-> critical_upgrade]

\* updated_critical_upgrade = Bool("critical_upgrade"): the name of the
\* constant critical_upgrade, so the same constant
updated_critical_upgrade(v) == v.critical_upgrade

require1(v) == Select(v.isAdmin, v.sender) = TRUE

require2(v) == Select(Select(v.approvedBy, v.target), v.sender) = FALSE

action1(v) ==
    Select(Select(v.updated_approvedBy, v.target), v.sender)
        = (~Select(Select(v.approvedBy, v.target), v.sender))

action2(v) ==
    Select(v.updated_approvals, v.target) = Select(v.approvals, v.target) + 1

\* s.add(Implies(And(require1, require2), And(action1, action2)))
ApproveConstraint(v) ==
    (require1(v) /\ require2(v)) => (action1(v) /\ action2(v))

\* s.add(Implies(updated_approvals[target] < REQUIRED_SIGNATURES,
\*               updated_critical_upgrade == critical_upgrade))
UpgradeKeepConstraint(v) ==
    Select(v.updated_approvals, v.target) < REQUIRED_SIGNATURES
        => updated_critical_upgrade(v) = v.critical_upgrade

\* Not(critical_upgrade): the value line 110 gives the flag after the upgrade
UpgradeEffect(v) == ~v.critical_upgrade

\* s.add(updated_approvals[target] >= REQUIRED_SIGNATURES,
\*       updated_critical_upgrade == Not(critical_upgrade)): two assertions
UpgradeFireConstraint(v) ==
    /\ Select(v.updated_approvals, v.target) >= REQUIRED_SIGNATURES
    /\ updated_critical_upgrade(v) = UpgradeEffect(v)

\* s.add(And(updated_approvals[target] < REQUIRED_SIGNATURES,
\*           updated_critical_upgrade == True))
NegatedProperty(v) ==
    /\ Select(v.updated_approvals, v.target) < REQUIRED_SIGNATURES
    /\ updated_critical_upgrade(v) = TRUE

\* what the script has asserted before the negated property
ModelConstraints(v) ==
    /\ FlagConstraint(v)
    /\ ApproveConstraint(v)
    /\ UpgradeKeepConstraint(v)
    /\ UpgradeFireConstraint(v)

\* the negated property alone, the constraints before it left out
ScriptQueryPropertyOnly(v) == NegatedProperty(v)

\* everything the solver holds when s.check() is called
ScriptQuery(v) == ModelConstraints(v) /\ NegatedProperty(v)

QuerySatisfiable == \E v \in Valuations : ScriptQuery(v)

\* the state after the constructor section, the remaining constants free
QueryInit ==
    /\ \E v \in Valuations :
          /\ isAdmin = v.isAdmin
          /\ approvals = v.approvals
          /\ updated_approvals = v.updated_approvals
          /\ approvedBy = v.approvedBy
          /\ updated_approvedBy = v.updated_approvedBy
          /\ sender = v.sender
          /\ target = v.target
          /\ critical_upgrade = v.critical_upgrade
    /\ admins = <<>>
    /\ isAdmin0 = K(FALSE)
    /\ pc = "constructed"
    /\ answer = "none"
    /\ printed = "none"
    /\ ContractIdle
    /\ ErcIdle

QueryStep(from, to) ==
    /\ pc = from
    /\ pc' = to
    /\ UNCHANGED <<answer, printed>>
    /\ UNCHANGED accessVars
    /\ UNCHANGED ercVars

\* line 108
AssertApprove == QueryStep("constructed", "approve_asserted")

\* lines 109 and 110
AssertUpgrade == QueryStep("approve_asserted", "upgrade_asserted")

\* line 122
AssertNegatedProperty == QueryStep("upgrade_asserted", "property_asserted")

\* s.check(); when it answers sat, the valuation is the model it found
QueryCheck ==
    /\ pc = "property_asserted"
    /\ answer' \in {r \in SolverAnswers(QuerySatisfiable) :
                       r = "sat" => ScriptQuery(val)}
    /\ pc' = "checked"
    /\ UNCHANGED printed
    /\ UNCHANGED accessVars
    /\ UNCHANGED ercVars

\* if s.check() == sat: print("... Counter Example Found! ") else: print(...)
QueryPrint ==
    /\ pc = "checked"
    /\ printed' = IF answer = "sat"
                     THEN "Critical upgrade possible without enough signer"
                     ELSE "Critical upgrade NOT possible without enough signer"
    /\ pc' = "done"
    /\ UNCHANGED answer
    /\ UNCHANGED accessVars
    /\ UNCHANGED ercVars

QueryNext ==
    \/ AssertApprove
    \/ AssertUpgrade
    \/ AssertNegatedProperty
    \/ QueryCheck
    \/ QueryPrint

QuerySpec == QueryInit /\ [][QueryNext]_vars

\* whether the valuation meets the constraints asserted when the script is at p
MeetsAsserted(v, p) ==
    /\ FlagConstraint(v)
    /\ p # "constructed" => ApproveConstraint(v)
    /\ p \notin {"constructed", "approve_asserted"}
          => (UpgradeKeepConstraint(v) /\ UpgradeFireConstraint(v))
    /\ p \notin {"constructed", "approve_asserted", "upgrade_asserted"}
          => NegatedProperty(v)

\* whether a check of "executed is never True" against the constraints the
\* script asserts before its negated property would find a valuation
ExecutedQuerySatisfiable ==
    \E v \in Valuations :
        /\ ModelConstraints(v)
        /\ updated_critical_upgrade(v) = TRUE

(***************************************************************************)
(* C3. Non-vacuity: once the script has asserted its constructor and       *)
(* transition constraints, they admit a valuation with                     *)
(* updated_critical_upgrade = TRUE, so a check of "executed is never True" *)
(* against them answers sat (Violated), not unsat (Proved).                *)
(***************************************************************************)
C3_ExecutedQuerySatisfiable ==
    pc = "upgrade_asserted" => ExecutedQuerySatisfiable

(***************************************************************************)
(* C7. Double-approval non-inflation: for a valuation that meets the       *)
(* asserted approve constraint, in which the admin sender has already      *)
(* approved target once (approvedBy[target][sender] = TRUE and             *)
(* approvals[target] = 1), the second approve leaves the count at 1.       *)
(***************************************************************************)
C7_SecondApproveBlocked ==
    (pc = "approve_asserted"
       /\ MeetsAsserted(val, pc)
       /\ Select(isAdmin, sender) = TRUE
       /\ Select(Select(approvedBy, target), sender) = TRUE
       /\ Select(approvals, target) = 1)
      => Select(updated_approvals, target) = 1

\* line 109 on its own: a valuation that meets it and has
\* updated_approvals[target] below the threshold keeps the flag
UpgradeKeepsFlag ==
    (pc = "upgrade_asserted"
       /\ UpgradeKeepConstraint(val)
       /\ Select(updated_approvals, target) < REQUIRED_SIGNATURES)
      => ~(critical_upgrade = FALSE /\ updated_critical_upgrade(val) = TRUE)

\* a valuation of the repeated approval in which the count grows from 1 to 2
RepeatedApprovalInflates ==
    /\ pc = "approve_asserted"
    /\ MeetsAsserted(val, pc)
    /\ Select(isAdmin, sender) = TRUE
    /\ Select(Select(approvedBy, target), sender) = TRUE
    /\ Select(approvals, target) = 1
    /\ Select(updated_approvals, target) = 2

(***************************************************************************)
(* C11. Guard-false transitions leave the state unchanged: a valuation     *)
(* that meets the asserted approve constraint and in which the guard       *)
(* isAdmin[sender] /\ ~approvedBy[target][sender] is false has             *)
(* updated_approvals[target] = approvals[target] and                       *)
(* updated_approvedBy[target][sender] = approvedBy[target][sender]; and a  *)
(* valuation that meets line 109 with updated_approvals[target] below the  *)
(* threshold has updated_critical_upgrade = critical_upgrade.              *)
(***************************************************************************)
C11_GuardFalseKeepsState ==
    /\ (pc = "approve_asserted"
          /\ MeetsAsserted(val, pc)
          /\ ~(require1(val) /\ require2(val)))
         => /\ Select(updated_approvals, target) = Select(approvals, target)
            /\ Select(Select(updated_approvedBy, target), sender)
                 = Select(Select(approvedBy, target), sender)
    /\ (pc = "upgrade_asserted"
          /\ UpgradeKeepConstraint(val)
          /\ Select(updated_approvals, target) < REQUIRED_SIGNATURES)
         => updated_critical_upgrade(val) = critical_upgrade

\* the sketch's approveAction: a call whose require fails changes no storage
RevertKeepsStorage ==
    [][reverted' => UNCHANGED <<isAdmin, approvals, approvedBy,
                                critical_upgrade>>]_vars

(***************************************************************************)
(* C12. Frame of approve: for a valuation that meets the asserted approve  *)
(* constraint, in which the guard holds and approvals[target] is a count   *)
(* (not negative), updated_approvedBy differs                              *)
(* from approvedBy only at [target][sender], which is TRUE,                *)
(* updated_approvals differs from approvals only at target, which is one   *)
(* more, and updated_critical_upgrade = critical_upgrade.  (The script     *)
(* declares updated_isAdmin and never uses it: isAdmin has no post-state   *)
(* term to compare.)                                                       *)
(***************************************************************************)
C12_ApproveFrame ==
    (pc = "approve_asserted"
       /\ MeetsAsserted(val, pc)
       /\ require1(val)
       /\ require2(val)
       /\ Select(approvals, target) >= 0)
      => /\ Select(Select(updated_approvedBy, target), sender) = TRUE
         /\ Select(updated_approvals, target) = Select(approvals, target) + 1
         /\ updated_critical_upgrade(val) = critical_upgrade
         /\ \A t \in Addr \ {target} :
               Select(updated_approvals, t) = Select(approvals, t)
         /\ \A t \in Addr, a \in Addr :
               <<t, a>> # <<target, sender>>
                  => Select(Select(updated_approvedBy, t), a)
                       = Select(Select(approvedBy, t), a)

\* the sketch's approveAction: a call that does not revert writes
\* approvedBy[t][s] and approvals[t] and nothing else
ApproveWritesTwoSlots ==
    [][\A s \in Addr, t \in Targets :
          (approveAction(s, t) /\ ~reverted')
             => /\ approvedBy' = [approvedBy EXCEPT ![t][s] = TRUE]
                /\ approvals' = [approvals EXCEPT ![t] = approvals[t] + 1]
                /\ approvedBy'[t][s] # approvedBy[t][s]
                /\ UNCHANGED <<isAdmin, critical_upgrade>>]_vars

\* the addresses recorded as approvers of t in the map ab
Approvers(ab, t) == {a \in Addr : Select(Select(ab, t), a) = TRUE}

\* whether the counter cnt counts the approvers recorded in ab, for every target
CountsApprovers(cnt, ab) ==
    \A t \in Addr : Select(cnt, t) = Cardinality(Approvers(ab, t))

(***************************************************************************)
(* C13. The approval counter counts distinct approvers: a valuation that   *)
(* meets the asserted approve constraint and whose pre-state has, for      *)
(* every t, approvals[t] equal to the number of addresses a with           *)
(* approvedBy[t][a] = TRUE, has the same in its post-state                 *)
(* (updated_approvals, updated_approvedBy), with no count above the        *)
(* number of admins; so the property is kept along every sequence of       *)
(* transitions.                                                            *)
(***************************************************************************)
C13_CounterCountsApprovers ==
    (pc = "approve_asserted"
       /\ MeetsAsserted(val, pc)
       /\ CountsApprovers(approvals, approvedBy))
      => /\ CountsApprovers(updated_approvals, updated_approvedBy)
         /\ \A t \in Addr :
               Select(updated_approvals, t)
                  <= Cardinality({a \in Addr : Select(isAdmin, a) = TRUE})

\* the sketch's contract: in every reachable state the counter of every target
\* is the number of its recorded approvers, at most the number of admins
SketchCountsApprovers ==
    /\ CountsApprovers(approvals, approvedBy)
    /\ \A t \in Addr :
          approvals[t] <= Cardinality({a \in Addr : isAdmin[a]})

(***************************************************************************)
(* C14. Effect of execute: for every valuation in which the upgrade's      *)
(* guard updated_approvals[target] >= REQUIRED_SIGNATURES holds, the value *)
(* the upgrade constraint gives the flag is TRUE, whatever the flag was    *)
(* before; in particular an upgrade from critical_upgrade = TRUE leaves    *)
(* TRUE.                                                                   *)
(***************************************************************************)
C14_UpgradeSetsFlag ==
    (pc = "upgrade_asserted"
       /\ Select(updated_approvals, target) >= REQUIRED_SIGNATURES)
      => UpgradeEffect(val) = TRUE

\* the sketch's contract: an upgradeContract that does not revert leaves the
\* flag TRUE, and no call takes the flag from TRUE to FALSE
SketchFlagStaysSet ==
    [][ /\ (lastOp' = "upgradeContract" /\ ~reverted') => critical_upgrade'
        /\ critical_upgrade => critical_upgrade' ]_vars

(***************************************************************************)
(* C15. The wraparound detector is exact: for every user_balance and       *)
(* requested_amount of the width, with updated_user_balance the wrapped    *)
(* difference user_balance - requested_amount, updated_user_balance is     *)
(* above user_balance (unsigned) exactly when requested_amount is above    *)
(* user_balance.                                                           *)
(***************************************************************************)
C15_DetectorExact ==
    updated_user_balance = BVSub(user_balance, requested_amount)
      => (UGT(updated_user_balance, user_balance)
            <=> UGT(requested_amount, user_balance))

\* the script has run over an underflowing subtraction, and the detector
\* flags it
C15_Witness ==
    /\ pc = "done"
    /\ UGT(requested_amount, user_balance)
    /\ user_balance > 0
    /\ updated_user_balance = BVSub(user_balance, requested_amount)
    /\ UGT(updated_user_balance, user_balance)

\* the script has run over a subtraction that does not underflow, and the
\* detector leaves it alone
DetectorQuiet ==
    /\ pc = "done"
    /\ UGT(user_balance, requested_amount)
    /\ requested_amount > 0
    /\ updated_user_balance = BVSub(user_balance, requested_amount)
    /\ ~UGT(updated_user_balance, user_balance)

(***************************************************************************)
(* C16. The script's own query is unsatisfiable: no valuation meets the    *)
(* conjunction of everything the script asserts, s.check() never answers   *)
(* sat, and the script prints that a critical upgrade is not possible      *)
(* without enough signers.                                                 *)
(***************************************************************************)
C16_QueryUnsatisfiable ==
    /\ ~ScriptQuery(val)
    /\ answer # "sat"
    /\ pc = "done"
         => printed = "Critical upgrade NOT possible without enough signer"

\* the script has run to its end on the answer unsat and printed its verdict
C16_Witness ==
    /\ pc = "done"
    /\ answer = "unsat"
    /\ printed = "Critical upgrade NOT possible without enough signer"
    /\ FlagConstraint(val)
    /\ ApproveConstraint(val)
    /\ UpgradeKeepConstraint(val)
    /\ Select(updated_approvals, target) < REQUIRED_SIGNATURES

\* whether some valuation meets the constraints asserted before the negated
\* property
ModelSatisfiable == \E v \in Valuations : ModelConstraints(v)

(***************************************************************************)
(* C17. The model is consistent on its own: once the script has asserted   *)
(* its constructor and transition constraints, and before it asserts the   *)
(* negated property, some valuation meets all of them.                     *)
(***************************************************************************)
C17_ModelConsistent ==
    pc = "upgrade_asserted" => ModelSatisfiable

\* the upgrade constraints of lines 109 and 110 alone, with the flag and the
\* approve constraints left out, are met by no valuation either
UpgradeConstraintsInconsistent ==
    ~(UpgradeKeepConstraint(val) /\ UpgradeFireConstraint(val))

\* whether every approver recorded in the map ab is an admin of adm
OnlyAdminsRecorded(ab, adm) ==
    \A t \in Addr, a \in Addr :
        Select(Select(ab, t), a) = TRUE => Select(adm, a) = TRUE

(***************************************************************************)
(* C18. Only admins are ever recorded as approvers: a valuation that meets *)
(* the asserted approve constraint and whose pre-state records only admins *)
(* in approvedBy records only admins in updated_approvedBy too, isAdmin    *)
(* being the same map before and after; so the property is kept along      *)
(* every sequence of transitions.                                          *)
(***************************************************************************)
C18_OnlyAdminsApprove ==
    (pc = "approve_asserted"
       /\ MeetsAsserted(val, pc)
       /\ OnlyAdminsRecorded(approvedBy, isAdmin))
      => OnlyAdminsRecorded(updated_approvedBy, isAdmin)

\* the sketch's contract: every recorded approver is an admin
SketchOnlyAdmins == OnlyAdminsRecorded(approvedBy, isAdmin)

\* the sketch's contract: no call changes isAdmin
SketchAdminsFixed == [][isAdmin' = isAdmin]_vars

====
